---- MODULE Spec2Model ----
(***************************************************************************)
(* Model of plugin/ReducePlugin.py: the batch driver add_hydrogens, the    *)
(* engine adapter call_Reduce with its process-wide output buffer, the     *)
(* reconciliation match_and_update and the position key get_position_key.  *)
(*                                                                         *)
(* Coordinates are fixed-point integers in units of 10^-5 (one digit more  *)
(* than round(x, 4) keeps), so that rounding is a real operation.          *)
(***************************************************************************)
EXTENDS Integers, Sequences, FiniteSets, TLC

VARIABLES
    complexes,          \* the batch: one original structure O per entry
    pc,                 \* position of add_hydrogens: start, running, done, crashed
    idx,                \* index of the structure the for-loop is at
    atom_by_position,   \* position index of the current structure
    current_output,     \* the module-level buffer written by output_to_file
    run_output,         \* what the engine run in progress has emitted (history)
    output_file,        \* self.output_file: closed flag and lines on disk
    results,            \* per structure: exit code, outcome, R, hydrogen_ids, log
    notifications,      \* send_notification calls, in order
    pos_p, pos_q,       \* two positions handed to get_position_key
    key_p, key_q        \* their keys, once computed

vars == <<complexes, pc, idx, atom_by_position, current_output, run_output,
          output_file, results, notifications, pos_p, pos_q, key_p, key_q>>

pipeline_vars == <<complexes, pc, idx, atom_by_position, current_output,
                   run_output, output_file, results, notifications>>

key_vars == <<pos_p, pos_q, key_p, key_q>>

None == "None"

(***************************************************************************)
(* get_position_key                                                        *)
(***************************************************************************)

\* round(x, 4): digits kept
Decimals == 4

\* the factor of int(50 * round(x, 4))
Scale == 50

RECURSIVE Pow10(_)
Pow10(n) == IF n = 0 THEN 1 ELSE 10 * Pow10(n - 1)

Abs(x) == IF x < 0 THEN -x ELSE x

\* int(): truncation toward zero of a / b, b > 0
TruncDiv(a, b) == IF a >= 0 THEN a \div b ELSE -((-a) \div b)

\* round(x, 4) of a coordinate x given in units of 10^-5; the result is in
\* units of 10^-4.  Python rounds half to even.
Round4(x) ==
    LET f == x \div 10
        r == x % 10
    IN  IF r < 5 THEN f
        ELSE IF r > 5 THEN f + 1
        ELSE IF f % 2 = 0 THEN f ELSE f + 1

\* int(50 * v) of a value v in units of 10^-4, in exact decimal arithmetic
\* (the binary product can fall just below a multiple of the cell width, the
\* first time at 0.58, outside the coordinates sampled below)
ScaleAndTruncate(v) == TruncDiv(Scale * v, Pow10(Decimals))

\* a key computed without round(x, 4): int(50 * x)
KeyCoord_NoRound(x) == TruncDiv(Scale * x, Pow10(Decimals + 1))

\* one component of the key: int(50 * round(x, 4))
KeyCoord(x) == ScaleAndTruncate(Round4(x))

\* get_position_key(atom), on the atom's position
PositionKey(position) == [i \in 1..3 |-> KeyCoord(position[i])]

get_position_key(atom) == PositionKey(atom.position)

(***************************************************************************)
(* Structures.  An atom is a record; uid stands for object identity.  A    *)
(* structure is [atoms, bonds]; an atom names its residue, a bond names    *)
(* the residue whose bond collection holds it.  Positions of structure     *)
(* atoms are multiples of 1000 (0.01 length units).                        *)
(***************************************************************************)

Uid(origin, c, n) == [origin |-> origin, c |-> c, n |-> n]

NoUid == Uid("none", 0, 0)

Residues == <<1, 2>>

Atom(uid, symbol, residue, position, display, het, sel, bf, occ) ==
    [uid |-> uid, symbol |-> symbol, residue |-> residue, position |-> position,
     display_mode |-> display, is_het |-> het, selected |-> sel,
     bfactor |-> bf, occupancy |-> occ]

\* the atoms of a structure in iteration order: residue by residue
RECURSIVE AtomsByResidue(_, _)
AtomsByResidue(atoms, rs) ==
    IF rs = <<>> THEN <<>>
    ELSE SelectSeq(atoms, LAMBDA a : a.residue = Head(rs))
         \o AtomsByResidue(atoms, Tail(rs))

ComplexAtoms(complex) == AtomsByResidue(complex.atoms, Residues)

AtomUids(complex) == {complex.atoms[i].uid : i \in 1..Len(complex.atoms)}

AtomOf(complex, uid) ==
    LET i == CHOOSE j \in 1..Len(complex.atoms) : complex.atoms[j].uid = uid
    IN  complex.atoms[i]

\* the structures a batch is made of; c is the position in the batch
OriginalA(c) ==
    [atoms |-> << Atom(Uid("orig", c, 1), "C", 1, <<100000, 0, 0>>, 1, TRUE, TRUE, 20, 100),
                  Atom(Uid("orig", c, 2), "O", 2, <<500000, 0, 0>>, 2, TRUE, FALSE, 35, 50) >>,
     bonds |-> << [kind |-> "CovalentDouble", atom1 |-> Uid("orig", c, 1),
                   atom2 |-> Uid("orig", c, 2), residue |-> 1] >>]

\* a structure with two atoms in one key cell (the later one wins the index)
OriginalB(c) ==
    [atoms |-> << Atom(Uid("orig", c, 1), "C", 1, <<100000, 0, 0>>, 1, FALSE, TRUE, 20, 100),
                  Atom(Uid("orig", c, 2), "N", 1, <<101000, 0, 0>>, 3, FALSE, FALSE, 12, 75),
                  Atom(Uid("orig", c, 3), "O", 2, <<500000, 0, 0>>, 2, TRUE, FALSE, 35, 50) >>,
     bonds |-> <<>>]

\* the batch alternates the two structures
Original(c) == IF c % 2 = 1 THEN OriginalA(c) ELSE OriginalB(c)

(***************************************************************************)
(* The engine's standard output, one line per on_output message.           *)
(***************************************************************************)

\* a line of engine output: record type, length without the newline, whether
\* it ends with the token "new", and the atom fields the parser reads
Line(rec, length, marker, symbol, residue, position) ==
    [rec |-> rec, length |-> length, marker |-> marker, symbol |-> symbol,
     residue |-> residue, position |-> position]

LineC      == Line("ATOM", 80, FALSE, "C", 1, <<100000, 0, 0>>)
LineCdrift == Line("ATOM", 80, FALSE, "C", 1, <<102000, 0, 0>>)
LineH      == Line("ATOM", 87, TRUE, "H", 1, <<200000, 0, 0>>)
LineHx     == Line("ATOM", 87, TRUE, "", 1, <<250000, 0, 0>>)
LineHfar   == Line("HETATM", 87, TRUE, "H", 1, <<100000, 201000, 0>>)
LineConect == Line("CONECT", 26, FALSE, "", 0, <<0, 0, 0>>)
LineUser   == Line("USER", 40, FALSE, "", 0, <<0, 0, 0>>)

EngineLines == {LineC, LineCdrift, LineH, LineHx, LineHfar, LineConect,
                LineUser}

\* exit codes of the engine process
ExitCodes == {-1, 0, 1}

\* l.startswith("ATOM") or l.startswith("HETATM") or l.startswith("CONECT")
IsStructural(l) == l.rec \in {"ATOM", "HETATM", "CONECT"}

IsAtomLine(l) == l.rec \in {"ATOM", "HETATM"}

\* len(line) > 84 and line.endswith('new\n'), line read with its newline
IsNewLine(l) == l.length + 1 > 84 /\ l.marker

\* Complex.io.from_pdb: one atom per ATOM/HETATM line, in file order; the
\* atom remembers the 0-based line it was parsed from
RECURSIVE ParseAtoms(_, _, _)
ParseAtoms(lines, c, n) ==
    IF n > Len(lines) THEN <<>>
    ELSE LET l == lines[n]
         IN (IF IsAtomLine(l)
             THEN << Atom(Uid("parsed", c, n - 1), l.symbol, l.residue,
                          l.position, 0, l.rec = "HETATM", FALSE, 0, 0) >>
             ELSE <<>>) \o ParseAtoms(lines, c, n + 1)

from_pdb(lines, c) == [atoms |-> ParseAtoms(lines, c, 1), bonds |-> <<>>]

\* the id counter over f.readlines(): 0-based indices of the "new" lines
RECURSIVE NewHydrogens(_, _)
NewHydrogens(lines, n) ==
    IF n > Len(lines) THEN <<>>
    ELSE (IF IsNewLine(lines[n]) THEN <<n - 1>> ELSE <<>>)
         \o NewHydrogens(lines, n + 1)

\* the filter loop of call_Reduce over current_output.splitlines()
StructuralLines(buffer) == SelectSeq(buffer, IsStructural)

(***************************************************************************)
(* Reconciliation: match_and_update and its helpers.                       *)
(***************************************************************************)

\* the position index built in add_hydrogens: later atoms overwrite earlier
\* ones with the same key; the index holds the atom object (its uid)
RECURSIVE IndexAtoms(_, _)
IndexAtoms(atoms, index) ==
    IF atoms = <<>> THEN index
    ELSE LET a == Head(atoms)
             k == get_position_key(a)
         IN  IndexAtoms(Tail(atoms),
                 [key \in (DOMAIN index) \cup {k} |->
                     IF key = k THEN a.uid ELSE index[key]])

EmptyIndex == [key \in {} |-> NoUid]

BuildIndex(complex) == IndexAtoms(ComplexAtoms(complex), EmptyIndex)

\* Vector3.distance, squared, in units of 0.01 (positions are multiples of
\* 1000 x 10^-5, which keeps the squares within 32 bits)
SquaredDistance(p1, p2) ==
    LET d(i) == (p1[i] - p2[i]) \div 1000
    IN  d(1) * d(1) + d(2) * d(2) + d(3) * d(3)

\* dist > 2.0, on the squared distance in units of 0.01
BondThreshold == 2

TooFar(d2) == d2 > (BondThreshold * 100) * (BondThreshold * 100)

\* the candidate test of the partner search without the symbol test
IsCandidate_AnySymbol(a, atom) == a.uid # atom.uid

\* a != atom and a.symbol != "H"
IsCandidate(a, atom) == a.uid # atom.uid /\ a.symbol # "H"

\* get_closest_heavy_atom_in_residue: linear scan of atom.residue.atoms with
\* a strict comparison; best.found = FALSE is result None (minD = 10000.0,
\* which every distance of the model is below)
RECURSIVE ClosestScan(_, _, _)
ClosestScan(candidates, atom, best) ==
    IF candidates = <<>> THEN best
    ELSE LET a == Head(candidates)
             d == SquaredDistance(a.position, atom.position)
         IN  ClosestScan(Tail(candidates), atom,
                 IF IsCandidate(a, atom) /\ (~best.found \/ d < best.dist)
                 THEN [found |-> TRUE, atom |-> a, dist |-> d]
                 ELSE best)

get_closest_heavy_atom_in_residue(complex, atom) ==
    ClosestScan(SelectSeq(complex.atoms, LAMBDA a : a.residue = atom.residue),
                atom, [found |-> FALSE, atom |-> atom, dist |-> 0])

\* add_bond: a single covalent bond registered on atom2's residue
add_bond(atom1, atom2) ==
    [kind |-> "CovalentSingle", atom1 |-> atom1.uid, atom2 |-> atom2.uid,
     residue |-> atom2.residue]

\* a copy of h_atom that keeps h_atom's own metadata
NewAtom_KeepParsed(h_atom, source_atom, uid) ==
    [h_atom EXCEPT !.uid = uid]

\* h_atom._shallow_copy() with the five metadata fields of source_atom
NewAtom(h_atom, source_atom, uid) ==
    [h_atom EXCEPT !.uid = uid,
                   !.display_mode = source_atom.display_mode,
                   !.is_het = source_atom.is_het,
                   !.selected = source_atom.selected,
                   !.bfactor = source_atom.bfactor,
                   !.occupancy = source_atom.occupancy]

\* a copy of the bond that keeps the reparsed endpoints
NewBond_KeepEndpoints(bond, source_atom, new_atom) == bond

\* bond._shallow_copy() with atom1 = source_atom and atom2 = new_atom
NewBond(bond, source_atom, new_atom) ==
    [bond EXCEPT !.atom1 = source_atom.uid, !.atom2 = new_atom.uid]

\* an insertion that replaces the last atom of the structure
AddToResidue_Overwrite(complex, residue, new_atom, new_bond) ==
    [atoms |-> [complex.atoms EXCEPT ![Len(complex.atoms)] =
                    [new_atom EXCEPT !.residue = residue]],
     bonds |-> Append(complex.bonds, [new_bond EXCEPT !.residue = residue])]

\* residue.add_atom(new_atom); residue.add_bond(new_bond)
AddToResidue(complex, residue, new_atom, new_bond) ==
    [atoms |-> Append(complex.atoms, [new_atom EXCEPT !.residue = residue]),
     bonds |-> Append(complex.bonds, [new_bond EXCEPT !.residue = residue])]

LogEntry(id, outcome, h, partner, source, new) ==
    [id |-> id, outcome |-> outcome, h |-> h, partner |-> partner,
     source |-> source, new |-> new]

\* one iteration of the loop of match_and_update.  st holds the original
\* structure O, the reparsed structure R, the log and whether atoms[id]
\* raised IndexError; c is the position of O in the batch
MatchStep(st, index, id, c) ==
    IF id + 1 > Len(st.R.atoms)
    THEN [st EXCEPT !.raised = TRUE]
    ELSE
    LET h_atom == [st.R.atoms[id + 1] EXCEPT !.symbol = "H"]
        R1 == [st.R EXCEPT !.atoms[id + 1] = h_atom]
        closest == get_closest_heavy_atom_in_residue(R1, h_atom)
        bonded_atom == closest.atom
    IN  IF ~closest.found
        THEN [st EXCEPT !.R = R1,
                 !.log = Append(@, LogEntry(id, "NoPartnerFound", h_atom.uid,
                                            NoUid, NoUid, NoUid))]
        ELSE IF TooFar(closest.dist)
        THEN [st EXCEPT !.R = R1,
                 !.log = Append(@, LogEntry(id, "PartnerTooFar", h_atom.uid,
                                            bonded_atom.uid, NoUid, NoUid))]
        ELSE
        LET bond == add_bond(h_atom, bonded_atom)
            R2 == [R1 EXCEPT !.bonds = Append(@, bond)]
            bonded_atom_key == get_position_key(bonded_atom)
        IN  IF bonded_atom_key \notin DOMAIN index
            THEN [st EXCEPT !.R = R2,
                     !.log = Append(@, LogEntry(id, "OrphanPartner", h_atom.uid,
                                                bonded_atom.uid, NoUid, NoUid))]
            ELSE
            LET source_atom == AtomOf(st.O, index[bonded_atom_key])
                new_atom == NewAtom(h_atom, source_atom,
                                    Uid("copy", c, Len(st.O.atoms) + 1))
                new_bond == NewBond(bond, source_atom, new_atom)
            IN  [st EXCEPT !.R = R2,
                    !.O = AddToResidue(st.O, source_atom.residue, new_atom, new_bond),
                    !.log = Append(@, LogEntry(id, "Added", h_atom.uid,
                                bonded_atom.uid, source_atom.uid, new_atom.uid))]

RECURSIVE match_and_update(_, _, _, _)
match_and_update(st, index, hydrogen_ids, c) ==
    IF hydrogen_ids = <<>> \/ st.raised THEN st
    ELSE match_and_update(MatchStep(st, index, Head(hydrogen_ids), c),
                          index, Tail(hydrogen_ids), c)

(***************************************************************************)
(* call_Reduce after the engine process has exited.                        *)
(***************************************************************************)

\* an exit test that takes every non-zero code for a failure
EngineFailed_NonZero(exit_code) == exit_code # 0

\* if exit_code < 0
EngineFailed(exit_code) == exit_code < 0

NoComplex == [atoms |-> <<>>, bonds |-> <<>>]

\* the value call_Reduce returns, the file it leaves, and whether
\* output_pdb.write raised on the closed file.  buffer is current_output
call_Reduce(exit_code, buffer, file, c) ==
    IF EngineFailed(exit_code)
    THEN [sentinel |-> TRUE, raised |-> FALSE, file |-> file,
          complex |-> NoComplex, hydrogen_ids |-> <<>>]
    ELSE IF StructuralLines(buffer) # <<>> /\ file.closed
    THEN [sentinel |-> FALSE, raised |-> TRUE, file |-> file,
          complex |-> NoComplex, hydrogen_ids |-> <<>>]
    ELSE LET written == [closed |-> TRUE,
                         lines |-> file.lines \o StructuralLines(buffer)]
         IN  [sentinel |-> FALSE, raised |-> FALSE, file |-> written,
              complex |-> from_pdb(written.lines, c),
              hydrogen_ids |-> NewHydrogens(written.lines, 1)]

(***************************************************************************)
(* The batch driver add_hydrogens as a state machine.                      *)
(***************************************************************************)

\* structures in a batch
BatchSize == 2

\* total engine output modelled, in lines
MaxBuffer == 3

Pending ==
    [exit_code |-> 0, outcome |-> "Pending", emitted |-> <<>>,
     file_lines |-> <<>>, index |-> EmptyIndex, R |-> NoComplex,
     hydrogen_ids |-> <<>>, log |-> <<>>]

Origin == <<0, 0, 0>>

KeyIdle ==
    /\ pos_p = Origin
    /\ pos_q = Origin
    /\ key_p = <<>>
    /\ key_q = <<>>

PipelineStart ==
    /\ complexes = [c \in 1..BatchSize |-> Original(c)]
    /\ pc = "start"
    /\ idx = 1
    /\ atom_by_position = EmptyIndex
    /\ current_output = <<>>
    /\ run_output = <<>>
    /\ output_file = [closed |-> FALSE, lines |-> <<>>]
    /\ results = [c \in 1..BatchSize |-> Pending]
    /\ notifications = <<>>

Init ==
    /\ PipelineStart
    /\ KeyIdle

\* the loop body up to the await: the position index is built and the
\* engine process is started
StartReduce ==
    /\ pc = "start"
    /\ idx <= Len(complexes)
    /\ atom_by_position' = BuildIndex(complexes[idx])
    /\ run_output' = <<>>
    /\ pc' = "running"
    /\ UNCHANGED <<complexes, idx, current_output, output_file, results,
                   notifications, key_vars>>

\* output_to_file: the on_output callback appends to the global buffer
OnOutput(line) ==
    /\ pc = "running"
    /\ Len(current_output) < MaxBuffer
    /\ current_output' = Append(current_output, line)
    /\ run_output' = Append(run_output, line)
    /\ UNCHANGED <<complexes, pc, idx, atom_by_position, output_file, results,
                   notifications, key_vars>>

Outcome(exit_code, outcome, ret, st) ==
    [exit_code |-> exit_code, outcome |-> outcome, emitted |-> run_output,
     file_lines |-> ret.file.lines, index |-> atom_by_position, R |-> st.R,
     hydrogen_ids |-> ret.hydrogen_ids, log |-> st.log]

\* the engine exits: the rest of call_Reduce and of the loop body.  A parsed
\* Complex object is truthy, so "not result_complex or len(hydrogen_ids) == 0"
\* is decided by the hydrogen list
ProcessExit(exit_code) ==
    /\ pc = "running"
    /\ LET ret == call_Reduce(exit_code, current_output, output_file, idx)
           st0 == [O |-> complexes[idx], R |-> ret.complex, log |-> <<>>,
                   raised |-> FALSE]
           st == match_and_update(st0, atom_by_position, ret.hydrogen_ids, idx)
       IN  /\ output_file' = ret.file
           /\ IF ret.raised
              THEN /\ pc' = "crashed"
                   /\ results' = [results EXCEPT ![idx] =
                          Outcome(exit_code, "WriteError", ret, st0)]
                   /\ UNCHANGED <<complexes, idx, notifications>>
              ELSE IF ret.sentinel
              THEN /\ notifications' = Append(notifications,
                          [type |-> "error", complex |-> idx])
                   /\ results' = [results EXCEPT ![idx] =
                          Outcome(exit_code, "EngineFailure", ret, st0)]
                   /\ idx' = idx + 1
                   /\ pc' = "start"
                   /\ UNCHANGED complexes
              ELSE IF Len(ret.hydrogen_ids) = 0
              THEN /\ results' = [results EXCEPT ![idx] =
                          Outcome(exit_code, "UnreadableOutput", ret, st0)]
                   /\ idx' = idx + 1
                   /\ pc' = "start"
                   /\ UNCHANGED <<complexes, notifications>>
              ELSE /\ complexes' = [complexes EXCEPT ![idx] = st.O]
                   /\ results' = [results EXCEPT ![idx] =
                          Outcome(exit_code,
                                  IF st.raised THEN "IndexError" ELSE "Matched",
                                  ret, st)]
                   /\ idx' = IF st.raised THEN idx ELSE idx + 1
                   /\ pc' = IF st.raised THEN "crashed" ELSE "start"
                   /\ UNCHANGED notifications
    /\ UNCHANGED <<atom_by_position, current_output, run_output, key_vars>>

\* the loop is over: return complexes
Return ==
    /\ pc = "start"
    /\ idx > Len(complexes)
    /\ pc' = "done"
    /\ UNCHANGED <<complexes, idx, atom_by_position, current_output,
                   run_output, output_file, results, notifications, key_vars>>

Next ==
    \/ StartReduce
    \/ \E line \in EngineLines : OnOutput(line)
    \/ \E exit_code \in ExitCodes : ProcessExit(exit_code)
    \/ Return

Spec == Init /\ [][Next]_vars

(***************************************************************************)
(* get_position_key applied to two positions p and q.  p has one           *)
(* coordinate near a multiple of the cell width; q is p shifted by a       *)
(* sub-tolerance amount or by just over one cell on the first axis and by  *)
(* small amounts on the others.                                            *)
(***************************************************************************)

\* cells on either side of zero whose borders are sampled
MaxCell == 1

\* distance from a cell border that is sampled, in 10^-5
MaxOff == 12

\* largest small shift of q against p, in 10^-5
MaxDelta == 20

\* how far beyond one cell width the large shifts go, in 10^-5
MaxFar == 2

\* the quantization unit 1/50 in units of 10^-5
CellWidth == Pow10(Decimals + 1) \div Scale

\* 1/100 of the quantization unit
Tolerance == CellWidth \div 100

Coords == {c * CellWidth + o : c \in -MaxCell..MaxCell, o \in -MaxOff..MaxOff}

AuxCoords == {-15, 1996}

Shifts == (-MaxDelta..MaxDelta)
          \cup {CellWidth + k : k \in 0..MaxFar}
          \cup {-(CellWidth + k) : k \in 0..MaxFar}

AuxShifts == {<<0, 0>>, <<-19, 8>>, <<19, -19>>}

InitKey ==
    /\ PipelineStart
    /\ pos_p \in {<<x, y, z>> : x \in Coords, y \in AuxCoords, z \in AuxCoords}
    /\ \E d \in Shifts, a \in AuxShifts :
           pos_q = <<pos_p[1] + d, pos_p[2] + a[1], pos_p[3] + a[2]>>
    /\ key_p = <<>>
    /\ key_q = <<>>

ComputeKeys ==
    /\ key_p = <<>>
    /\ key_p' = PositionKey(pos_p)
    /\ key_q' = PositionKey(pos_q)
    /\ UNCHANGED <<pipeline_vars, pos_p, pos_q>>

NextKey == ComputeKeys

SpecKey == InitKey /\ [][NextKey]_vars

(***************************************************************************)
(* Properties                                                              *)
(***************************************************************************)

Batch == 1..Len(complexes)

Processed(c) == results[c].outcome # "Pending"

\* the engine run of structure c succeeded and its output file was written
Reparsed(c) == results[c].outcome \in {"UnreadableOutput", "Matched", "IndexError"}

SeqToSet(seq) == {seq[i] : i \in 1..Len(seq)}

AddedEntries(c) == SelectSeq(results[c].log, LAMBDA e : e.outcome = "Added")

SkippedEntries(c) == SelectSeq(results[c].log, LAMBDA e : e.outcome # "Added")

InsertedAtoms(c) ==
    SubSeq(complexes[c].atoms, Len(Original(c).atoms) + 1, Len(complexes[c].atoms))

InsertedBonds(c) ==
    SubSeq(complexes[c].bonds, Len(Original(c).bonds) + 1, Len(complexes[c].bonds))

\* C1: add_hydrogens never aborts a batch: whatever the outcomes of the
\* structures, the loop goes through every structure and returns.
C1_NeverAborts == pc # "crashed"

\* C2: the lines written to the output file and parsed into the reparsed
\* structure of an invocation are exactly the structural lines that
\* invocation's engine run emitted.
C2_OutputIsolated ==
    \A c \in Batch : Reparsed(c) =>
        /\ results[c].file_lines = StructuralLines(results[c].emitted)
        /\ Len(results[c].R.atoms)
              = Len(from_pdb(StructuralLines(results[c].emitted), c).atoms)

Passed(c, e) ==
    /\ e.partner # NoUid
    /\ LET h == AtomOf(results[c].R, e.h)
           partner == AtomOf(results[c].R, e.partner)
       IN  /\ ~TooFar(SquaredDistance(h.position, partner.position))
           /\ get_position_key(partner) \in DOMAIN results[c].index

\* C4: match_and_update only adds to O: the atoms and bonds O had are all
\* still there, unchanged, followed by exactly one new atom and one new bond,
\* both in the residue of the matched original atom, for each index that
\* passed partner search, threshold and index lookup; a skipped index adds
\* nothing.
C4_OnlyAdds ==
    \A c \in Batch :
        LET O == complexes[c]
            orig == Original(c)
            added == AddedEntries(c)
        IN  /\ SubSeq(O.atoms, 1, Len(orig.atoms)) = orig.atoms
            /\ SubSeq(O.bonds, 1, Len(orig.bonds)) = orig.bonds
            /\ Len(O.atoms) = Len(orig.atoms) + Len(added)
            /\ Len(O.bonds) = Len(orig.bonds) + Len(added)
            /\ \A e \in SeqToSet(results[c].log) :
                  (e.outcome = "Added") <=> Passed(c, e)
            /\ results[c].outcome = "Matched" =>
                  Len(results[c].log) = Len(results[c].hydrogen_ids)
            /\ \A k \in 1..Len(added) :
                  LET source == AtomOf(orig, added[k].source)
                  IN  /\ InsertedAtoms(c)[k].uid = added[k].new
                      /\ InsertedAtoms(c)[k].residue = source.residue
                      /\ InsertedBonds(c)[k].residue = source.residue

C4_Witness ==
    \E c \in Batch :
        /\ results[c].outcome = "Matched"
        /\ Len(AddedEntries(c)) > 0
        /\ \E e \in SeqToSet(SkippedEntries(c)) : e.outcome = "PartnerTooFar"
        /\ Len(Original(c).bonds) > 0

\* C5: an inserted hydrogen carries the display mode, heteroatom flag,
\* selection flag, B-factor and occupancy of the original atom stored in the
\* position index under the partner's key, not those of the reparsed atom.
C5_MetadataFromSource ==
    \A c \in Batch : \A e \in SeqToSet(AddedEntries(c)) :
        LET new == AtomOf(complexes[c], e.new)
            partner == AtomOf(results[c].R, e.partner)
            source == AtomOf(complexes[c],
                             results[c].index[get_position_key(partner)])
        IN  /\ new.display_mode = source.display_mode
            /\ new.is_het = source.is_het
            /\ new.selected = source.selected
            /\ new.bfactor = source.bfactor
            /\ new.occupancy = source.occupancy
            /\ new.position = AtomOf(results[c].R, e.h).position

C5_Witness ==
    \E c \in Batch : \E e \in SeqToSet(AddedEntries(c)) :
        LET new == AtomOf(complexes[c], e.new)
            h == AtomOf(results[c].R, e.h)
        IN  /\ new.display_mode # h.display_mode
            /\ new.is_het # h.is_het
            /\ new.selected # h.selected
            /\ new.bfactor # h.bfactor
            /\ new.occupancy # h.occupancy

NotificationsFor(c) == SelectSeq(notifications, LAMBDA n : n.complex = c)

\* C6: a negative exit code gives the failure sentinel, one error
\* notification for that structure, no change to the structure, and the loop
\* goes on to the next structure; no other outcome notifies.
C6_FailureNotifiedAndContained ==
    \A c \in Batch :
        /\ Len(NotificationsFor(c))
              = IF Processed(c) /\ results[c].exit_code < 0 THEN 1 ELSE 0
        /\ (Processed(c) /\ results[c].exit_code < 0) =>
              /\ results[c].outcome = "EngineFailure"
              /\ results[c].R = NoComplex
              /\ complexes[c] = Original(c)
              /\ idx > c
        /\ (Processed(c) /\ results[c].exit_code >= 0) =>
              results[c].outcome # "EngineFailure"

C6_Witness ==
    \E c \in Batch :
        /\ results[c].outcome = "EngineFailure"
        /\ Len(notifications) = 1
        /\ c + 1 \in Batch
        /\ results[c + 1].outcome = "Matched"
        /\ results[c + 1].exit_code > 0

KeysComputed == key_p # <<>>

WithinTolerance ==
    \A i \in 1..3 : Abs(pos_p[i] - pos_q[i]) < Tolerance

C8_FarApartDistinctKeys ==
    (KeysComputed /\ \E i \in 1..3 : Abs(pos_p[i] - pos_q[i]) > CellWidth)
        => key_p # key_q

\* C9: every recorded hydrogen index is a valid index into the reparsed
\* structure's atoms and denotes the atom parsed from the line that carries
\* the new marker.
C9_IndexIsAtomIndex ==
    \A c \in Batch : Reparsed(c) =>
        \A i \in 1..Len(results[c].hydrogen_ids) :
            LET id == results[c].hydrogen_ids[i]
            IN  /\ id + 1 <= Len(results[c].R.atoms)
                /\ results[c].R.atoms[id + 1].uid.n = id

\* C10: the partner chosen for a new hydrogen is never itself an atom listed
\* in the hydrogen-index list.
C10_PartnerIsHeavy ==
    \A c \in Batch : \A e \in SeqToSet(results[c].log) :
        e.partner # NoUid =>
            \A i \in 1..Len(results[c].hydrogen_ids) :
                LET id == results[c].hydrogen_ids[i]
                IN  id + 1 <= Len(results[c].R.atoms) =>
                        results[c].R.atoms[id + 1].uid # e.partner

====
